---- MODULE Spec2Model ----
(***************************************************************************)
(* Simon's algorithm demonstration (Ashen235/qa_simon).                    *)
(*                                                                         *)
(*   src/cirq-impl/google.py   create_simon_oracle, simons_algorithm_      *)
(*                             circuit, extract_secret_string              *)
(*   src/qiskit-impl/ibm.py    simon_function                              *)
(*                                                                         *)
(* Specifications, over one set of variables:                              *)
(*   SpecOracle       one call of create_simon_oracle on an arbitrary list *)
(*   SpecSimon        simons_algorithm_circuit(n, s), run gate by gate     *)
(*   SpecRecover      one call of extract_secret_string on a counts dict,  *)
(*                    n up to MaxN                                         *)
(*   SpecRecoverWide  the same call, n up to MaxWideN                      *)
(*   SpecPerm         one call of simon_function on a string, pi drawn     *)
(* Bit vectors are sequences of 0/1; qubits and list indices are 0-based   *)
(* as in the source, sequence positions are 1-based.                       *)
(***************************************************************************)
EXTENDS Integers, Sequences, FiniteSets

VARIABLES
    pc,               \* position of the modelled call
    s,                \* the hidden string handed in (list of bits, or characters)
    is_list,          \* isinstance(s, list)
    n,                \* number of input qubits
    circuit,          \* the cirq.Circuit being built: a sequence of operations
    outcome,          \* "none", "returned", "TypeError", "ValueError", ...
    ip,               \* index of the next circuit operation to simulate
    psi,              \* simulator state: amplitude of every 2n-bit basis state
    measured,         \* measurement record: key (qubit) -> bit
    counts,           \* items of the counts dict, in iteration order
    y_vectors,        \* the rows extract_secret_string collected
    result,           \* its return value
    pi,               \* the permutation drawn by simon_function
    query_gate        \* the entries of query_gate set to 1: <<row, col>>

vars == <<pc, s, is_list, n, circuit, outcome, ip, psi, measured,
          counts, y_vectors, result, pi, query_gate>>

\* ------------------------------------------------------------------ bounds

\* longest list handed to create_simon_oracle
MaxLen == 4
\* most input qubits of a simulated query circuit
MaxQubits == 3
\* most input qubits n handed to extract_secret_string
MaxN == 3
\* the same, in the wider specification SpecRecoverWide
MaxWideN == 4
\* most items in the counts dict
MaxSamples == 3
\* longest hidden string handed to simon_function
MaxStr == 2
\* most points the drawn permutation moves
MaxMoved == 4

\* ----------------------------------------------------------------- helpers

\* return values of extract_secret_string: None, or a list of bits
None == [is_none |-> TRUE, bits |-> <<>>]

Bits(v) == [is_none |-> FALSE, bits |-> v]

Pow2(k) == 2 ^ k

BitVecs(k) == [1..k -> {0, 1}]

Zeros(k) == [j \in 1..k |-> 0]

XorBit(a, b) == (a + b) % 2

XorVec(a, b) == [j \in 1..Len(a) |-> XorBit(a[j], b[j])]

\* any(y)
Any(y) == \E j \in 1..Len(y) : y[j] # 0

RECURSIVE SumSeq(_)
SumSeq(q) == IF q = <<>> THEN 0 ELSE q[1] + SumSeq(Tail(q))

\* y . s mod 2
Dot2(y, t) == SumSeq([j \in 1..Len(y) |-> y[j] * t[j]]) % 2

\* --------------------------------------------- create_simon_oracle (cirq)

CNOT(c, t) == <<"CNOT", c, t>>
H(q) == <<"H", q>>
Measure(q) == <<"M", q>>

\* the four checks at entry; "ok" when all pass
ValidateNoZeroCheck(isl, lst) ==
    IF ~isl THEN "TypeError"
    ELSE IF Len(lst) = 0 THEN "ValueError"
    ELSE IF \E k \in 1..Len(lst) : lst[k] \notin {0, 1} THEN "ValueError"
    ELSE "ok"

Validate(isl, lst) ==
    IF ~isl THEN "TypeError"
    ELSE IF Len(lst) = 0 THEN "ValueError"
    ELSE IF \E k \in 1..Len(lst) : lst[k] \notin {0, 1} THEN "ValueError"
    ELSE IF \A k \in 1..Len(lst) : lst[k] = 0 THEN "ValueError"
    ELSE "ok"

\* Step 1: CNOT from x[i] to y[i] for every i
Step1Gates(k) == [j \in 1..k |-> CNOT(j - 1, k + j - 1)]

FirstOneIndexZero(lst) == IF \E k \in 1..Len(lst) : lst[k] = 1 THEN 0 ELSE -1

\* Step 2: s.index(1), 0-based; -1 stands for index() raising ValueError
FirstOneIndex(lst) ==
    IF \E k \in 1..Len(lst) : lst[k] = 1
    THEN (CHOOSE k \in 1..Len(lst) :
              lst[k] = 1 /\ \A j \in 1..(k - 1) : lst[j] # 1) - 1
    ELSE -1

\* Step 3: CNOT from x[first_one_index] to y[i] for every i with s[i] == 1
Step3Gates(lst, p) ==
    LET k == Len(lst)
        ones == SelectSeq([j \in 1..k |-> j - 1], LAMBDA i : lst[i + 1] = 1)
    IN  [j \in 1..Len(ones) |-> CNOT(p, k + ones[j])]

\* the function the oracle computes on basis states: the output register,
\* started at 0, after the circuit's CNOTs have acted on |x>|0>
RECURSIVE RunGates(_, _)
RunGates(gates, reg) ==
    IF gates = <<>> THEN reg
    ELSE LET g == gates[1]
         IN  RunGates(Tail(gates),
                      [reg EXCEPT ![g[3] + 1] = XorBit(@, reg[g[2] + 1])])

OracleF(gates, x) ==
    LET k == Len(x) IN SubSeq(RunGates(gates, x \o Zeros(k)), k + 1, 2 * k)

\* inputs of create_simon_oracle: lists over 0, 1 and a non-binary element
ListInputs == UNION {[1..k -> {0, 1, 2}] : k \in 0..MaxLen}

Idle ==
    /\ ip = 0 /\ psi = <<>> /\ measured = <<>>
    /\ counts = <<>> /\ y_vectors = <<>> /\ result = None
    /\ pi = <<>> /\ query_gate = {}

InitOracle ==
    /\ pc = "call"
    /\ is_list \in BOOLEAN
    /\ s \in (IF is_list THEN ListInputs ELSE {<<>>})
    /\ n = Len(s)
    /\ circuit = <<>>
    /\ outcome = "none"
    /\ Idle

CreateSimonOracle ==
    /\ pc = "call"
    /\ pc' = "done"
    /\ LET v == Validate(is_list, s)
           p == FirstOneIndex(s)
       IN  IF v # "ok"
           THEN outcome' = v /\ circuit' = <<>>
           ELSE IF p = -1
           THEN outcome' = "ValueError" /\ circuit' = Step1Gates(n)
           ELSE outcome' = "returned"
                /\ circuit' = Step1Gates(n) \o Step3Gates(s, p)
    /\ UNCHANGED <<s, is_list, n, ip, psi, measured,
                   counts, y_vectors, result, pi, query_gate>>

NextOracle == CreateSimonOracle

SpecOracle == InitOracle /\ [][NextOracle]_vars

\* a valid hidden string: a non-empty list of 0/1 with at least one 1
ValidSecret(lst) ==
    /\ Len(lst) >= 1
    /\ \A k \in 1..Len(lst) : lst[k] \in {0, 1}
    /\ \E k \in 1..Len(lst) : lst[k] = 1

\* C1: for every valid s the function computed by the CNOT network keeps
\* the Simon promise: f(x) = f(x XOR s) for all x, and f(x) # f(x') for
\* every x' outside {x, x XOR s}.
C1_Promise ==
    (pc = "done" /\ outcome = "returned") =>
        \A x \in BitVecs(n) :
            /\ OracleF(circuit, x) = OracleF(circuit, XorVec(x, s))
            /\ \A x2 \in BitVecs(n) :
                   x2 \notin {x, XorVec(x, s)}
                       => OracleF(circuit, x) # OracleF(circuit, x2)

C1_Witness ==
    /\ pc = "done" /\ outcome = "returned"
    /\ n = 3 /\ s = <<0, 1, 1>>

\* C5: create_simon_oracle rejects every invalid list with ValueError
\* before any gate is appended and returns no circuit; every valid list is
\* accepted and a circuit is returned.
C5_RejectsInvalid ==
    (pc = "done" /\ is_list) =>
        /\ ~ValidSecret(s) => (outcome = "ValueError" /\ circuit = <<>>)
        /\ ValidSecret(s) => (outcome = "returned" /\ circuit # <<>>)

C5_Witness ==
    /\ pc = "done" /\ is_list /\ outcome = "ValueError"
    /\ s = <<0, 0, 0>>

\* ------------------------- simons_algorithm_circuit and one simulated shot

\* create_simon_oracle as a value: the circuit, or the error it raises
OracleCircuit(lst) ==
    LET v == Validate(TRUE, lst)
        p == FirstOneIndex(lst)
    IN  IF v # "ok" \/ p = -1 THEN "ValueError"
        ELSE Step1Gates(Len(lst)) \o Step3Gates(lst, p)

\* Hadamards on the inputs, the oracle, measurement of the outputs,
\* Hadamards on the inputs, measurement of the inputs
AlgorithmCircuit(k, lst) ==
    [q \in 1..k |-> H(q - 1)]
        \o OracleCircuit(lst)
        \o [q \in 1..k |-> Measure(q - 1 + k)]
        \o [q \in 1..k |-> H(q - 1)]
        \o [q \in 1..k |-> Measure(q - 1)]

\* Hadamard on qubit q (amplitudes kept as integers, the factor 1/sqrt 2
\* dropped: it changes no amplitude from zero to nonzero or back)
HadamardOn(state, q) ==
    [b \in DOMAIN state |->
        state[[b EXCEPT ![q + 1] = 0]]
            + (IF b[q + 1] = 1 THEN -1 ELSE 1) * state[[b EXCEPT ![q + 1] = 1]]]

\* CNOT with control c and target t: a permutation of the basis states
CnotOn(state, c, t) ==
    [b \in DOMAIN state |-> state[[b EXCEPT ![t + 1] = XorBit(@, b[c + 1])]]]

\* the outcomes of measuring qubit q that have nonzero probability
Outcomes(state, q) == {b[q + 1] : b \in {d \in DOMAIN state : state[d] # 0}}

\* the state after measuring v on qubit q
Collapse(state, q, v) ==
    [b \in DOMAIN state |-> IF b[q + 1] = v THEN state[b] ELSE 0]

InitSimon ==
    /\ pc = "build"
    /\ is_list = TRUE
    /\ n \in 1..MaxQubits
    /\ s \in BitVecs(n)
    /\ circuit = <<>>
    /\ outcome = "none"
    /\ ip = 0 /\ psi = <<>> /\ measured = <<>>
    /\ counts = <<>> /\ y_vectors = <<>> /\ result = None
    /\ pi = <<>> /\ query_gate = {}

\* simons_algorithm_circuit(n, s); the simulator starts in |0...0>
BuildCircuit ==
    /\ pc = "build"
    /\ IF OracleCircuit(s) = "ValueError"
       THEN /\ outcome' = "ValueError"
            /\ pc' = "done"
            /\ UNCHANGED <<circuit, ip, psi, measured>>
       ELSE /\ circuit' = AlgorithmCircuit(n, s)
            /\ pc' = "run"
            /\ ip' = 1
            /\ psi' = [b \in BitVecs(2 * n) |-> IF b = Zeros(2 * n) THEN 1 ELSE 0]
            /\ measured' = [q \in 1..(2 * n) |-> -1]
            /\ UNCHANGED outcome
    /\ UNCHANGED <<s, is_list, n, counts, y_vectors, result, pi, query_gate>>

Advance ==
    /\ ip' = ip + 1
    /\ IF ip = Len(circuit)
       THEN pc' = "done" /\ outcome' = "returned"
       ELSE UNCHANGED <<pc, outcome>>
    /\ UNCHANGED <<s, is_list, n, circuit, counts, y_vectors, result,
                   pi, query_gate>>

ApplyH ==
    /\ pc = "run" /\ circuit[ip][1] = "H"
    /\ psi' = HadamardOn(psi, circuit[ip][2])
    /\ UNCHANGED measured
    /\ Advance

ApplyCNOT ==
    /\ pc = "run" /\ circuit[ip][1] = "CNOT"
    /\ psi' = CnotOn(psi, circuit[ip][2], circuit[ip][3])
    /\ UNCHANGED measured
    /\ Advance

ApplyMeasure ==
    /\ pc = "run" /\ circuit[ip][1] = "M"
    /\ \E v \in Outcomes(psi, circuit[ip][2]) :
           /\ psi' = Collapse(psi, circuit[ip][2], v)
           /\ measured' = [measured EXCEPT ![circuit[ip][2] + 1] = v]
    /\ Advance

NextSimon == BuildCircuit \/ ApplyH \/ ApplyCNOT \/ ApplyMeasure

SpecSimon == InitSimon /\ [][NextSimon]_vars

\* the input-register readout of the shot
MeasuredY == [j \in 1..n |-> measured[j]]

\* C9: every input-register outcome y the query circuit (Hadamards, the
\* linear oracle, Hadamards) can yield with nonzero probability is
\* orthogonal to s: y . s = 0 mod 2.
C9_Orthogonal ==
    (pc = "done" /\ outcome = "returned") => Dot2(MeasuredY, s) = 0

C9_Witness ==
    /\ pc = "done" /\ outcome = "returned"
    /\ n = 3 /\ s = <<0, 1, 1>> /\ MeasuredY = <<1, 1, 1>>

\* ------------------------------------------- extract_secret_string (cirq)

\* exact rationals <<numerator, denominator>>, denominator > 0, in lowest
\* terms: the entries of a sympy Matrix built from integers
RECURSIVE Gcd(_, _)
Gcd(a, b) == IF b = 0 THEN a ELSE Gcd(b, a % b)

Abs(a) == IF a < 0 THEN -a ELSE a

Rat(p, q) ==
    LET g == Gcd(Abs(p), Abs(q))
    IN  IF q < 0 THEN <<(-p) \div g, (-q) \div g>> ELSE <<p \div g, q \div g>>

RZero == <<0, 1>>
ROne == <<1, 1>>
RSub(a, b) == Rat(a[1] * b[2] - b[1] * a[2], a[2] * b[2])
RMul(a, b) == Rat(a[1] * b[1], a[2] * b[2])
RDiv(a, b) == Rat(a[1] * b[2], a[2] * b[1])

\* int(): truncation towards zero
IntTrunc(a) == IF a[1] >= 0 THEN a[1] \div a[2] ELSE -((-a[1]) \div a[2])

\* Matrix(y_vectors): an empty list gives the 0 x 0 matrix
Matrix(rows) == [i \in 1..Len(rows) |-> [j \in 1..Len(rows[i]) |-> <<rows[i][j], 1>>]]

Cols(M) == IF Len(M) = 0 THEN 0 ELSE Len(M[1])

\* Matrix.rref(): Gauss-Jordan elimination over the rationals, column by
\* column, the pivot being the first nonzero entry at or below row r
RECURSIVE RrefFrom(_, _, _, _)
RrefFrom(M, c, r, pivots) ==
    IF c > Cols(M) \/ r > Len(M) THEN [reduced |-> M, pivots |-> pivots]
    ELSE LET cand == {k \in r..Len(M) : M[k][c] # RZero}
         IN  IF cand = {} THEN RrefFrom(M, c + 1, r, pivots)
             ELSE LET k == CHOOSE k \in cand : \A k2 \in cand : k <= k2
                      sw == [M EXCEPT ![r] = M[k], ![k] = M[r]]
                      prow == [j \in 1..Cols(M) |-> RDiv(sw[r][j], sw[r][c])]
                      M2 == [i \in 1..Len(M) |->
                                IF i = r THEN prow
                                ELSE [j \in 1..Cols(M) |->
                                         RSub(sw[i][j], RMul(sw[i][c], prow[j]))]]
                  IN  RrefFrom(M2, c + 1, r + 1, Append(pivots, c))

Rref(M) == RrefFrom(M, 1, 1, <<>>)

\* Matrix.nullspace(): one basis vector per free column, in column order;
\* the free variable is set to 1 and the pivot variables back-substituted
Nullspace(M) ==
    LET rr == Rref(M)
        isPivot(j) == \E q \in 1..Len(rr.pivots) : rr.pivots[q] = j
        free == SelectSeq([j \in 1..Cols(M) |-> j], LAMBDA j : ~isPivot(j))
        vec(f) == [j \in 1..Cols(M) |->
                      IF j = f THEN ROne
                      ELSE IF isPivot(j)
                      THEN LET q == CHOOSE q \in 1..Len(rr.pivots) : rr.pivots[q] = j
                           IN  RSub(RZero, rr.reduced[q][f])
                      ELSE RZero]
    IN  [q \in 1..Len(free) |-> vec(free[q])]

\* int(bit) for a character of the key
IntOfChar(ch) == IF ch = "1" THEN 1 ELSE 0

KeyBitsShort(key, k) ==
    [j \in 1..(IF Len(key) < k - 1 THEN Len(key) ELSE k - 1) |-> IntOfChar(key[j])]

\* y = [int(bit) for bit in bitstring[:n]]
KeyBits(key, k) ==
    [j \in 1..(IF Len(key) < k THEN Len(key) ELSE k) |-> IntOfChar(key[j])]

KeepsRowAlways(y) == TRUE

\* "if any(y)": the all-zero vector is not appended
KeepsRow(y) == Any(y)

\* the loop over counts.items(): zero counts skipped, all-zero vectors
\* excluded, break once n - 1 rows are collected
RECURSIVE Collect(_, _, _)
Collect(items, acc, k) ==
    IF items = <<>> THEN acc
    ELSE IF items[1].count = 0 THEN Collect(Tail(items), acc, k)
    ELSE LET y == KeyBits(items[1].key, k)
             acc2 == IF KeepsRow(y) THEN Append(acc, y) ELSE acc
         IN  IF Len(acc2) >= k - 1 THEN acc2
             ELSE Collect(Tail(items), acc2, k)

\* s_extracted = [int(bit) % 2 for bit in nullspace[0]]
SecretOf(v) == Bits([j \in 1..Len(v) |-> IntTrunc(v[j]) % 2])

\* the return value for the collected rows
SolveFor(rows, k) ==
    IF Len(rows) < k - 1 THEN None
    ELSE LET nullspace == Nullspace(Matrix(rows))
         IN  IF nullspace = <<>> THEN None ELSE SecretOf(nullspace[1])

ExtractSecretString(items, k) == SolveFor(Collect(items, <<>>, k), k)

\* keys of the counts dict: n-character strings of "0" and "1"
Keys(k) == [1..k -> {"0", "1"}]

ZeroKey(k) == [j \in 1..k |-> "0"]

Items(k) == [key : Keys(k), count : {0, 1}]

InitRecoverUpTo(m) ==
    /\ pc = "counts"
    /\ n \in 1..m
    /\ counts = <<>>
    /\ y_vectors = <<>>
    /\ result = None
    /\ s = <<>> /\ is_list = TRUE /\ circuit = <<>> /\ outcome = "none"
    /\ ip = 0 /\ psi = <<>> /\ measured = <<>>
    /\ pi = <<>> /\ query_gate = {}

InitRecover == InitRecoverUpTo(MaxN)

InitRecoverWide == InitRecoverUpTo(MaxWideN)

\* the caller's dict gains one more item (keys of a dict are distinct)
AddCount ==
    /\ pc = "counts"
    /\ Len(counts) < MaxSamples
    /\ \E it \in Items(n) :
           /\ \A q \in 1..Len(counts) : counts[q].key # it.key
           /\ counts' = Append(counts, it)
    /\ UNCHANGED <<pc, s, is_list, n, circuit, outcome, ip, psi, measured,
                   y_vectors, result, pi, query_gate>>

ExtractSecret ==
    /\ pc = "counts"
    /\ pc' = "done"
    /\ y_vectors' = Collect(counts, <<>>, n)
    /\ result' = SolveFor(y_vectors', n)
    /\ outcome' = "returned"
    /\ UNCHANGED <<s, is_list, n, circuit, ip, psi, measured, counts,
                   pi, query_gate>>

NextRecover == AddCount \/ ExtractSecret

SpecRecover == InitRecover /\ [][NextRecover]_vars

SpecRecoverWide == InitRecoverWide /\ [][NextRecover]_vars

\* ---- linear algebra over GF(2), for stating the claims about recovery

RECURSIVE XorAll(_, _)
XorAll(S, k) ==
    IF S = {} THEN Zeros(k)
    ELSE LET v == CHOOSE v \in S : TRUE IN XorVec(v, XorAll(S \ {v}, k))

Span2(S, k) == {XorAll(T, k) : T \in SUBSET S}

\* the vectors of S are linearly independent over GF(2)
Independent2(S, k) == \A T \in (SUBSET S) \ {{}} : XorAll(T, k) # Zeros(k)

\* rank over GF(2) of S is at most r
RankAtMost2(S, k, r) == Cardinality(Span2(S, k)) <= Pow2(r)

\* the sample vectors of the counts dict, in order, and those that count
KeyVec(key) == [j \in 1..Len(key) |-> IF key[j] = "1" THEN 1 ELSE 0]

Samples == [q \in 1..Len(counts) |-> KeyVec(counts[q].key)]

AllCounted == \A q \in 1..Len(counts) : counts[q].count > 0

SampleSet == {Samples[q] : q \in 1..Len(counts)}

NonZeroItems == SelectSeq(counts, LAMBDA it : it.key # ZeroKey(n))

Item(str) == [key |-> str, count |-> 1]

\* C2: given exactly n - 1 samples, independent over GF(2) and each
\* orthogonal to a nonzero s, extract_secret_string returns s.
C2_RecoversSecret ==
    (pc = "done" /\ AllCounted /\ Len(counts) = n - 1
        /\ Independent2(SampleSet, n)) =>
        \A sec \in BitVecs(n) \ {Zeros(n)} :
            (\A y \in SampleSet : Dot2(y, sec) = 0) => result = Bits(sec)

\* C3: when the nonzero samples have GF(2) rank at most n - 2 (n >= 2),
\* extract_secret_string returns None, never a bit vector.
C3_NeverGuesses ==
    (pc = "done" /\ n >= 2 /\ AllCounted
        /\ RankAtMost2(SampleSet \ {Zeros(n)}, n, n - 2)) => result = None

\* C7: with L a list of n - 1 independent nonzero samples (n >= 2) and the
\* all-zero vector inserted anywhere in it, extract_secret_string returns
\* what it returns on L, and the all-zero vector is never a collected row
\* nor counted towards the n - 1 rows.
C7_ZeroFiltering ==
    (pc = "done" /\ n >= 2 /\ AllCounted
        /\ Len(NonZeroItems) = n - 1
        /\ Independent2(SampleSet \ {Zeros(n)}, n)) =>
        /\ result = ExtractSecretString(NonZeroItems, n)
        /\ y_vectors = [q \in 1..(n - 1) |-> KeyVec(NonZeroItems[q].key)]

C7_Witness ==
    /\ pc = "done" /\ n = 3 /\ AllCounted
    /\ counts = <<Item(<<"0", "1", "1">>), Item(ZeroKey(3)), Item(<<"1", "0", "1">>)>>
    /\ result = Bits(<<1, 1, 1>>)

\* C8 as stated: n = 3, the samples "001", "100" give 110, and so do they
\* together with the redundant "101".
C8_Returns110 ==
    (pc = "done" /\ n = 3 /\ AllCounted
        /\ SampleSet \in {{<<0, 0, 1>>, <<1, 0, 0>>},
                          {<<0, 0, 1>>, <<1, 0, 0>>, <<1, 0, 1>>}}) =>
        result = Bits(<<1, 1, 0>>)

\* C8 amended: n = 3, the samples "001", "100" (in either order) give 010,
\* the one nonzero vector orthogonal to both, and so do they together with
\* the redundant "101" wherever it stands.
C8_Returns010 ==
    (pc = "done" /\ n = 3 /\ AllCounted
        /\ SampleSet \in {{<<0, 0, 1>>, <<1, 0, 0>>},
                          {<<0, 0, 1>>, <<1, 0, 0>>, <<1, 0, 1>>}}) =>
        result = Bits(<<0, 1, 0>>)

C8_Witness ==
    /\ pc = "done" /\ n = 3
    /\ counts = <<Item(<<"0", "0", "1">>), Item(<<"1", "0", "1">>), Item(<<"1", "0", "0">>)>>
    /\ result = Bits(<<0, 1, 0>>)

\* ------------------------------------------------ simon_function (qiskit)

RECURSIVE BitXor(_, _)
\* a ^ b on non-negative integers
BitXor(a, b) ==
    IF a = 0 /\ b = 0 THEN 0
    ELSE XorBit(a % 2, b % 2) + 2 * BitXor(a \div 2, b \div 2)

RECURSIVE BitOr(_, _)
BitOr(a, b) ==
    IF a = 0 /\ b = 0 THEN 0
    ELSE (IF a % 2 = 1 \/ b % 2 = 1 THEN 1 ELSE 0) + 2 * BitOr(a \div 2, b \div 2)

Min(a, b) == IF a < b THEN a ELSE b

IntBase2LittleEndian(str) ==
    IF Len(str) = 0 THEN -1
    ELSE SumSeq([j \in 1..Len(str) |-> IntOfChar(str[j]) * Pow2(j - 1)])

\* int(s, 2): the first character is the most significant bit; -1 stands
\* for the ValueError int() raises on the empty string
IntBase2(str) ==
    IF Len(str) = 0 THEN -1
    ELSE SumSeq([j \in 1..Len(str) |-> IntOfChar(str[j]) * Pow2(Len(str) - j)])

\* pi[min(x, x ^ int(s, 2))]
SimonF(p, sval, x) == p[Min(x, BitXor(x, sval))]

TargetOr(y, fx) == BitOr(y, fx)

\* z = y ^ pi[...]
Target(y, fx) == BitXor(y, fx)

\* the entries the double loop sets to 1
FillGate(k, p, sval) ==
    {<<x + Pow2(k) * Target(y, SimonF(p, sval, x)), x + Pow2(k) * y>> :
        x \in 0..(Pow2(k) - 1), y \in 0..(Pow2(k) - 1)}

\* np.allclose(query_gate @ query_gate.conj().T, np.eye(2**(2n))). For a
\* 0/1 matrix, entry (r1, r2) of the product counts the columns in which
\* rows r1 and r2 both hold a 1: the product is the identity exactly when
\* every row holds one 1 (diagonal) and no column holds two (off-diagonal).
IsUnitary(G, k) ==
    LET dim == Pow2(2 * k)
    IN  /\ {g[1] : g \in G} = 0..(dim - 1)
        /\ Cardinality(G) = dim
        /\ Cardinality({g[2] : g \in G}) = dim

\* np.random.permutation(2**n), bounded: the permutations of 0..2^n-1 that
\* move at most MaxMoved points
Permutations(k) ==
    LET D == 0..(Pow2(k) - 1)
        bij(S) == {g \in [S -> S] : \A a, b \in S : a # b => g[a] # g[b]}
    IN  UNION {{[x \in D |-> IF x \in S THEN g[x] ELSE x] : g \in bij(S)} :
                  S \in {T \in SUBSET D : Cardinality(T) <= MaxMoved}}

Strings == UNION {[1..k -> {"0", "1"}] : k \in 0..MaxStr}

InitPerm ==
    /\ pc = "call"
    /\ s \in Strings
    /\ n = Len(s)
    /\ pi = <<>>
    /\ query_gate = {}
    /\ outcome = "none"
    /\ is_list = FALSE /\ circuit = <<>>
    /\ ip = 0 /\ psi = <<>> /\ measured = <<>>
    /\ counts = <<>> /\ y_vectors = <<>> /\ result = None

SimonFunction ==
    /\ pc = "call"
    /\ pc' = "done"
    /\ \E p \in Permutations(n) :
           /\ pi' = p
           /\ IF IntBase2(s) = -1
              THEN query_gate' = {} /\ outcome' = "ValueError: invalid literal"
              ELSE /\ query_gate' = FillGate(n, p, IntBase2(s))
                   /\ outcome' = IF IsUnitary(query_gate', n) THEN "returned"
                                 ELSE "ValueError: not unitary"
    /\ UNCHANGED <<s, is_list, n, circuit, ip, psi, measured,
                   counts, y_vectors, result>>

NextPerm == SimonFunction

SpecPerm == InitPerm /\ [][NextPerm]_vars

\* the hidden string read as a binary number, most significant bit first
HiddenInt(str) ==
    SumSeq([j \in 1..Len(str) |-> (IF str[j] = "1" THEN 1 ELSE 0) * Pow2(Len(str) - j)])

HasOne(str) == \E j \in 1..Len(str) : str[j] = "1"

\* the function the gate realises: |x, 0> goes to |x, f(x)>
GateF(G, k, x) == CHOOSE z \in 0..(Pow2(k) - 1) : <<x + Pow2(k) * z, x>> \in G

\* C4: for every nonzero s and every permutation pi the gate maps |x, y>
\* to |x, y XOR f(x)> with f(x) = f(x XOR s) for all x and f(x) # f(x')
\* for every x' outside {x, x XOR s}.
C4_PermPromise ==
    (pc = "done" /\ HasOne(s)) =>
        /\ outcome = "returned"
        /\ LET X == 0..(Pow2(n) - 1)
               f == [x \in X |-> GateF(query_gate, n, x)]
           IN  \A x \in X :
                   /\ \A y \in X :
                          <<x + Pow2(n) * BitXor(y, f[x]), x + Pow2(n) * y>>
                              \in query_gate
                   /\ f[x] = f[BitXor(x, HiddenInt(s))]
                   /\ \A x2 \in X :
                          x2 \notin {x, BitXor(x, HiddenInt(s))} => f[x] # f[x2]

C4_Witness ==
    /\ pc = "done" /\ outcome = "returned"
    /\ s = <<"0", "1">> /\ pi = [x \in 0..3 |-> 3 - x]

\* C6: simon_function fails and returns no oracle when s is all-zero or
\* empty; it never builds an oracle whose function is one-to-one.
C6_RejectsDegenerate ==
    pc = "done" =>
        /\ ~HasOne(s) => outcome # "returned"
        /\ outcome = "returned" =>
               \E x, x2 \in 0..(Pow2(n) - 1) :
                   x # x2 /\ GateF(query_gate, n, x) = GateF(query_gate, n, x2)

\* C10: for every binary string s of length n >= 1 and every pi, the filled
\* query_gate has exactly one 1 in every row and in every column; the
\* unitarity check passes and its error is never raised.
C10_GateIsPermutation ==
    (pc = "done" /\ n >= 1) =>
        /\ outcome = "returned"
        /\ Cardinality(query_gate) = Pow2(2 * n)
        /\ {g[1] : g \in query_gate} = 0..(Pow2(2 * n) - 1)
        /\ {g[2] : g \in query_gate} = 0..(Pow2(2 * n) - 1)

C10_Witness ==
    /\ pc = "done" /\ outcome = "returned"
    /\ s = <<"0", "0">> /\ pi = [x \in 0..3 |-> (x + 1) % 4]

====
